---- MODULE Spec2Model ----
(***************************************************************************)
(* coild address allocation and release (coild/ip.go).                     *)
(*                                                                         *)
(* The handlers handleNewIP and handleIPDelete are modelled statement by   *)
(* statement: every call to the store (s.db) and to the routing table      *)
(* is one atomic step, and the steps of concurrent requests interleave.    *)
(* The store (package model) and the coil-controller are the environment   *)
(* of the handlers; they are modelled from their documented contract.      *)
(***************************************************************************)
EXTENDS Integers, Sequences, FiniteSets, TLC

(* ------------------------------ bounds --------------------------------- *)
\* addresses per block
BlockSize == 2
\* requests served in a run
MaxReq == 2
\* infrastructure errors the store / the routing table may produce in a run
MaxFaults == 1
\* mutations made by the coil-controller in a run
MaxCtl == 1

(* ----------------------------- universe -------------------------------- *)
Procs == {1, 2}
Containers == {"c1", "c2"}
\* the pod of each container
PodOf == [c1 |-> "p1", c2 |-> "p2"]
\* "ns1" has a pool of its own name, "ns2" has none and falls back to "default"
Namespaces == {"ns1", "ns2"}
PoolNames == {"ns1", "default"}
\* the blocks each pool can hand out; no pool "default" is registered in the
\* store (the inconsistent configuration of ip.go 136-144)
PoolBlocks == [ns1 |-> {0, 1}, default |-> {}]
Blocks == UNION {PoolBlocks[pn] : pn \in PoolNames}
BlockAddrs(b) == {a \in (b * BlockSize)..(b * BlockSize + BlockSize - 1) : TRUE}
Addrs == UNION {BlockAddrs(b) : b \in Blocks}
\* nil (*net.IPNet, net.IP) and the empty address of respNotFoundOK
Nil == 0 - 1
\* path.Join(keys[0], keys[1]): the key of the records written before 1.0.2
LegacyKey(ns, pod) == ns \o "/" \o pod
\* the keys under which an address can be recorded
Keys == Containers \cup {"c0"} \cup {LegacyKey(ns, PodOf[c]) : ns \in Namespaces, c \in Containers}
NoAssign == [cid |-> "", rev |-> 0]

VARIABLES
    pools,      \* store: names of the registered pools
    owner,      \* store: block -> "none" | "me" | "other"
    myBlocks,   \* store: pool name -> sequence of the blocks of this node
    assign,     \* store: address -> assignment (NoAssign when free)
    rev,        \* store: revision of the last write
    routes,     \* blocks with a route in the routing table of this node
    dryRun,     \* s.dryRun
    faults,     \* infrastructure errors produced so far
    ctl,        \* controller mutations so far
    nreq,       \* requests started so far
    req,        \* request slot -> the handler's local variables
    granted,    \* address -> successful allocate responses since it was last free
    podIPs,     \* s.podIPs of the server that keeps its state in memory
    addressBlocks,  \* s.addressBlocks of that server
    mu          \* s.mu: the slot that holds the lock, Nil when it is free

vars == <<pools, owner, myBlocks, assign, rev, routes, dryRun, faults, ctl, nreq, req, granted,
          podIPs, addressBlocks, mu>>
memVars == <<podIPs, addressBlocks, mu>>
storeVars == <<pools, owner, myBlocks, assign, rev>>

(* --------------------------- small helpers ----------------------------- *)
Min(S) == CHOOSE x \in S : \A y \in S : x <= y
\* net.IPNet.Contains
Contains(b, ip) == ip \in BlockAddrs(b)
FreeAddrs(b) == {a \in BlockAddrs(b) : assign[a] = NoAssign}
SeqToSet(s) == {s[i] : i \in 1..Len(s)}
RemoveFromSeq(s, x) == SelectSeq(s, LAMBDA y : y /= x)

Idle ==
    [op |-> "idle", pc |-> "idle", ns |-> "", cid |-> "", poolName |-> "",
     bl |-> <<>>, idx |-> 0, blocks |-> [pn \in PoolNames |-> <<>>],
     ip |-> Nil, modRev |-> 0, block |-> Nil, key |-> "",
     res |-> "", err |-> "", addr |-> Nil,
     \* for the properties: the calls made, whether the request ran alone,
     \* the addresses the container held when the request arrived, and the
     \* containerID of the assignment its FreeIP removed
     \* and whether one of its AllocateIP calls was on a block the node did
     \* not own at that moment
     \* and the number of blocks its pool could still hand out on arrival
     log |-> <<>>, alone |-> TRUE, live0 |-> {}, freed |-> "", foreign |-> FALSE, unused0 |-> 0]

\* one store (or routing) call of a request: name, argument, outcome
Call(name, arg, out) == [call |-> name, arg |-> arg, out |-> out]
Logged(r, name, arg, out) == [r EXCEPT !.log = Append(@, Call(name, arg, out))]
\* renderError / renderJSON followed by return
\* (the loop variables of the handler are gone)
Done(r, res, addr) ==
    [r EXCEPT !.pc = "done", !.res = res, !.addr = addr,
              !.bl = <<>>, !.idx = 0, !.modRev = 0]
\* renderError(InternalServerError(err)) followed by return
InternalServerError(r, err) == [Done(r, "Internal", Nil) EXCEPT !.err = err]

\* one call of AllocateIP(block, ...), made when the store says owner
Probed(r, block, out) ==
    [Logged(r, "AllocateIP", block, out) EXCEPT !.foreign = @ \/ owner[block] /= "me"]

\* the environment has been quiet: no infrastructure error, no controller step
Quiet == faults = 0 /\ ctl = 0
\* an infrastructure error may be produced, until the last request of the run
CanFail == faults < MaxFaults /\ nreq <= MaxReq
\* the controller, or another node, may act, until the last request of the run
CanAct == ctl < MaxCtl /\ nreq <= MaxReq

Busy(p) == req[p].op /= "idle"
\* renderJSON / renderError and the return that follows it are consecutive
\* statements of a handler that touch nothing shared: a request that has
\* answered returns before any other step is taken
NoDone == \A q \in Procs : req[q].pc /= "done"
\* a request takes the first free slot; a run serves MaxReq requests, and one
\* more when the environment has been quiet
FirstFree(p) ==
    /\ nreq < MaxReq \/ (nreq = MaxReq /\ Quiet)
    /\ NoDone /\ ~Busy(p) /\ \A q \in Procs : q < p => Busy(q)
\* a request starts before the one of another slot has returned, or the
\* controller acts before a request has returned: these requests did not run alone
Overlapped(rq) == [q \in Procs |-> IF rq[q].op = "idle" THEN rq[q] ELSE [rq[q] EXCEPT !.alone = FALSE]]
Started(p, r) ==
    IF \E q \in Procs \ {p} : Busy(q)
    THEN Overlapped([req EXCEPT ![p] = r])
    ELSE [req EXCEPT ![p] = r]

(* ------------------------------ Init ----------------------------------- *)
\* coild starts on a node that owns nothing yet ...
FreshNode ==
    [owner |-> [b \in Blocks |-> "none"],
     myBlocks |-> [pn \in PoolNames |-> <<>>],
     assign |-> [a \in Addrs |-> NoAssign],
     rev |-> 0]
\* ... or on a node whose first block is full: its first address belongs to
\* "c1", the second was recorded before 1.0.2 for pod p2 of ns1, under the
\* key "ns1/p2", the others belong to a pod that makes no request here
UsedNode ==
    [owner |-> [b \in Blocks |-> IF b = Min(Blocks) THEN "me" ELSE "none"],
     myBlocks |-> [pn \in PoolNames |-> IF Min(Blocks) \in PoolBlocks[pn] THEN <<Min(Blocks)>> ELSE <<>>],
     assign |-> [a \in Addrs |->
                  IF ~Contains(Min(Blocks), a) THEN NoAssign
                  ELSE [cid |-> IF a = Min(Addrs) THEN "c1"
                                ELSE IF a = Min(Addrs) + 1 THEN LegacyKey("ns1", "p2")
                                ELSE "c0",
                        rev |-> a + 1]],
     rev |-> BlockSize]

Init ==
    /\ pools = {"ns1"}
    /\ \E s \in {FreshNode, UsedNode} :
          /\ owner = s.owner
          /\ myBlocks = s.myBlocks
          /\ assign = s.assign
          /\ rev = s.rev
          /\ routes = {b \in Blocks : s.owner[b] = "me"}
          /\ granted = [a \in Addrs |-> IF s.assign[a] = NoAssign THEN 0 ELSE 1]
    /\ dryRun \in BOOLEAN
    /\ faults = 0
    /\ ctl = 0
    /\ nreq = 0
    /\ req = [p \in Procs |-> Idle]
    \* the server that keeps its state in memory starts with what the store holds
    /\ podIPs = [k \in Keys |->
                   IF \E a \in Addrs : assign[a].cid = k
                   THEN Min({a \in Addrs : assign[a].cid = k}) ELSE Nil]
    /\ addressBlocks = myBlocks
    /\ mu = Nil

(* ------------------- the store, as the handlers see it ----------------- *)
\* GetPool(podNS): nil when a pool is registered under that name
GetPoolFound(name) == name \in pools
\* getAllocatedIP(containerID): the addresses of the live assignments of it
AllocatedIPs(cid) == {a \in Addrs : assign[a] /= NoAssign /\ assign[a].cid = cid}
\* AllocateIP(block, assignment): claims the first free address of the block
AllocateIPFull(b) == FreeAddrs(b) = {}
AllocateIPAddr(b) == Min(FreeAddrs(b))
\* AcquireBlock(node, pool): the unused blocks of the pool; a block that still
\* holds addresses is not handed out (a new block has free capacity)
UnusedBlocks(pn) == {b \in PoolBlocks[pn] : owner[b] = "none" /\ FreeAddrs(b) = BlockAddrs(b)}

(* ----------------------------- handleNewIP ----------------------------- *)
\* faulty variant: every failure of GetPool falls back to "default"
determinePoolName_AlwaysDefault(podNS, err) ==
    IF err = "nil" THEN [name |-> podNS, err |-> "nil"] ELSE [name |-> "default", err |-> "nil"]

\* determinePoolName (ip.go 22-32): the pool name for the outcome of GetPool(podNS)
determinePoolName(podNS, err) ==
    CASE err = "nil" -> [name |-> podNS, err |-> "nil"]
      [] err = "ErrNotFound" -> [name |-> "default", err |-> "nil"]
      [] OTHER -> [name |-> "", err |-> err]

\* ip.go 37-72: ns and cid are the pod-namespace and container-id of an input
\* that passes the validation of lines 38-66; then the pool name is determined
NewIP_determinePoolName(p, ns, cid) ==
    /\ FirstFree(p)
    /\ \E err \in {IF GetPoolFound(ns) THEN "nil" ELSE "ErrNotFound", "error"} :
          LET r == Logged([Idle EXCEPT !.op = "new", !.ns = ns, !.cid = cid, !.live0 = AllocatedIPs(cid)],
                          "GetPool", Nil, err)
              pn == determinePoolName(ns, err)
          IN IF pn.err = "nil"
             THEN /\ req' = Started(p, [r EXCEPT !.poolName = pn.name, !.pc = "getAllocatedIP",
                                                 !.unused0 = Cardinality(UnusedBlocks(pn.name))])
                  /\ UNCHANGED faults
             ELSE /\ CanFail
                  /\ faults' = faults + 1
                  /\ req' = Started(p, InternalServerError(r, "store"))
    /\ nreq' = nreq + 1
    /\ UNCHANGED <<storeVars, routes, dryRun, ctl, granted, memVars>>

\* faulty variant: the conflict check lets a container with an address through
NewIP_getAllocatedIP_NoConflict(p) ==
    /\ req[p].op = "new" /\ req[p].pc = "getAllocatedIP" /\ NoDone
    /\ req' = [req EXCEPT ![p] =
          [Logged(@, "getAllocatedIP", Nil, "ErrNotFound") EXCEPT !.pc = "GetMyBlocks"]]
    /\ UNCHANGED <<storeVars, routes, dryRun, faults, ctl, nreq, granted, memVars>>

\* ip.go 74-82: the conflict check
NewIP_getAllocatedIP(p) ==
    /\ req[p].op = "new" /\ req[p].pc = "getAllocatedIP" /\ NoDone
    /\ \/ /\ AllocatedIPs(req[p].cid) /= {}
          /\ req' = [req EXCEPT ![p] = Done(Logged(@, "getAllocatedIP", Nil, "nil"), "Conflict", Nil)]
          /\ UNCHANGED faults
       \/ /\ AllocatedIPs(req[p].cid) = {}
          /\ req' = [req EXCEPT ![p] =
                [Logged(@, "getAllocatedIP", Nil, "ErrNotFound") EXCEPT !.pc = "GetMyBlocks"]]
          /\ UNCHANGED faults
       \/ /\ CanFail
          /\ faults' = faults + 1
          /\ req' = [req EXCEPT ![p] = InternalServerError(Logged(@, "getAllocatedIP", Nil, "error"), "store")]
    /\ UNCHANGED <<storeVars, routes, dryRun, ctl, nreq, granted, memVars>>

\* faulty variant: a failure of GetMyBlocks is taken for an empty Block Set
NewIP_GetMyBlocks_Swallow(p) ==
    /\ req[p].op = "new" /\ req[p].pc = "GetMyBlocks" /\ NoDone
    /\ \/ /\ req' = [req EXCEPT ![p] =
                [Logged(@, "GetMyBlocks", Nil, "nil") EXCEPT
                    !.bl = myBlocks[req[p].poolName], !.idx = 1, !.pc = "AllocateIP"]]
          /\ UNCHANGED faults
       \/ /\ CanFail
          /\ faults' = faults + 1
          /\ req' = [req EXCEPT ![p] =
                [Logged(@, "GetMyBlocks", Nil, "error") EXCEPT !.bl = <<>>, !.idx = 1, !.pc = "AllocateIP"]]
    /\ UNCHANGED <<storeVars, routes, dryRun, ctl, nreq, granted, memVars>>

\* ip.go 84-89: bl := blocks[poolName]
NewIP_GetMyBlocks(p) ==
    /\ req[p].op = "new" /\ req[p].pc = "GetMyBlocks" /\ NoDone
    /\ \/ /\ req' = [req EXCEPT ![p] =
                [Logged(@, "GetMyBlocks", Nil, "nil") EXCEPT
                    !.bl = myBlocks[req[p].poolName], !.idx = 1, !.pc = "AllocateIP"]]
          /\ UNCHANGED faults
       \/ /\ CanFail
          /\ faults' = faults + 1
          /\ req' = [req EXCEPT ![p] = InternalServerError(Logged(@, "GetMyBlocks", Nil, "error"), "store")]
    /\ UNCHANGED <<storeVars, routes, dryRun, ctl, nreq, granted, memVars>>

\* faulty variant: the response carries the address of the block, block.IP, not ip
NewIP_AllocateIP_BlockIP(p) ==
    /\ req[p].op = "new" /\ req[p].pc = "AllocateIP" /\ NoDone
    /\ req[p].idx <= Len(req[p].bl)
    /\ LET block == req[p].bl[req[p].idx] IN
       \/ /\ AllocateIPFull(block)
          /\ req' = [req EXCEPT ![p] =
                [Probed(@, block, "ErrBlockIsFull") EXCEPT !.idx = @ + 1]]
          /\ UNCHANGED <<assign, rev, granted>>
       \/ /\ ~AllocateIPFull(block)
          /\ LET ip == AllocateIPAddr(block) IN
             /\ assign' = [assign EXCEPT ![ip] = [cid |-> req[p].cid, rev |-> rev + 1]]
             /\ rev' = rev + 1
             /\ granted' = [granted EXCEPT ![Min(BlockAddrs(block))] = @ + 1]
             /\ req' = [req EXCEPT ![p] =
                   Done(Probed(@, block, "nil"), "OK", Min(BlockAddrs(block)))]
    /\ UNCHANGED <<pools, owner, myBlocks, routes, dryRun, faults, ctl, nreq, memVars>>

\* faulty variant: a full block is tried again instead of the next one
NewIP_AllocateIP_Spin(p) ==
    /\ req[p].op = "new" /\ req[p].pc = "AllocateIP" /\ NoDone
    /\ req[p].idx <= Len(req[p].bl)
    /\ LET block == req[p].bl[req[p].idx] IN
       \/ /\ AllocateIPFull(block)
          /\ UNCHANGED <<req, assign, rev, granted>>
       \/ /\ ~AllocateIPFull(block)
          /\ LET ip == AllocateIPAddr(block) IN
             /\ assign' = [assign EXCEPT ![ip] = [cid |-> req[p].cid, rev |-> rev + 1]]
             /\ rev' = rev + 1
             /\ granted' = [granted EXCEPT ![ip] = @ + 1]
             /\ req' = [req EXCEPT ![p] = Done(Probed(@, block, "nil"), "OK", ip)]
    /\ UNCHANGED <<pools, owner, myBlocks, routes, dryRun, faults, ctl, nreq, memVars>>

\* faulty variant: the blocks of bl are tried from the last to the first
NewIP_AllocateIP_Backwards(p) ==
    /\ req[p].op = "new" /\ req[p].pc = "AllocateIP" /\ NoDone
    /\ req[p].idx <= Len(req[p].bl)
    /\ LET block == req[p].bl[Len(req[p].bl) + 1 - req[p].idx] IN
       \/ /\ AllocateIPFull(block)
          /\ req' = [req EXCEPT ![p] =
                [Probed(@, block, "ErrBlockIsFull") EXCEPT !.idx = @ + 1]]
          /\ UNCHANGED <<assign, rev, granted>>
       \/ /\ ~AllocateIPFull(block)
          /\ LET ip == AllocateIPAddr(block) IN
             /\ assign' = [assign EXCEPT ![ip] = [cid |-> req[p].cid, rev |-> rev + 1]]
             /\ rev' = rev + 1
             /\ granted' = [granted EXCEPT ![ip] = @ + 1]
             /\ req' = [req EXCEPT ![p] = Done(Probed(@, block, "nil"), "OK", ip)]
    /\ UNCHANGED <<pools, owner, myBlocks, routes, dryRun, faults, ctl, nreq, memVars>>

\* ip.go 99-122: one iteration of "for _, block := range bl"
NewIP_AllocateIP(p) ==
    /\ req[p].op = "new" /\ req[p].pc = "AllocateIP" /\ NoDone
    /\ req[p].idx <= Len(req[p].bl)
    /\ LET block == req[p].bl[req[p].idx] IN
       \/ /\ AllocateIPFull(block)
          /\ req' = [req EXCEPT ![p] =
                [Probed(@, block, "ErrBlockIsFull") EXCEPT !.idx = @ + 1]]
          /\ UNCHANGED <<assign, rev, granted, faults>>
       \/ /\ ~AllocateIPFull(block)
          /\ LET ip == AllocateIPAddr(block) IN
             /\ assign' = [assign EXCEPT ![ip] = [cid |-> req[p].cid, rev |-> rev + 1]]
             /\ rev' = rev + 1
             /\ granted' = [granted EXCEPT ![ip] = @ + 1]
             /\ req' = [req EXCEPT ![p] = Done(Probed(@, block, "nil"), "OK", ip)]
          /\ UNCHANGED faults
       \/ /\ CanFail
          /\ faults' = faults + 1
          /\ req' = [req EXCEPT ![p] = InternalServerError(Probed(@, block, "error"), "store")]
          /\ UNCHANGED <<assign, rev, granted>>
    /\ UNCHANGED <<pools, owner, myBlocks, routes, dryRun, ctl, nreq, memVars>>

\* faulty variant: the new block goes behind the blocks already tried
Prepend_Append(r, block) == [r EXCEPT !.bl = @ \o <<block>>, !.idx = 1, !.pc = "AllocateIP"]

\* faulty variant: the new block replaces the blocks already in bl
Prepend_Replace(r, block) == [r EXCEPT !.bl = <<block>>, !.idx = 1, !.pc = "AllocateIP"]

\* ip.go 165-169: the new block goes in front of bl, and the scan starts over
Prepend(r, block) == [r EXCEPT !.bl = <<block>> \o @, !.idx = 1, !.pc = "AllocateIP"]

\* faulty variant: ErrOutOfBlocks sends the request back to RETRY
NewIP_AcquireBlock_Retry(p) ==
    /\ req[p].op = "new" /\ req[p].pc = "AllocateIP" /\ NoDone
    /\ req[p].idx > Len(req[p].bl)
    /\ LET pn == req[p].poolName IN
       \/ /\ pn \notin pools
          /\ req' = [req EXCEPT ![p] = Done(Logged(@, "AcquireBlock", Nil, "ErrNotFound"), "PoolNotFound", Nil)]
          /\ UNCHANGED <<owner, myBlocks>>
       \/ /\ pn \in pools /\ UnusedBlocks(pn) = {}
          /\ req' = [req EXCEPT ![p] = [Logged(@, "AcquireBlock", Nil, "ErrOutOfBlocks") EXCEPT !.idx = 1]]
          /\ UNCHANGED <<owner, myBlocks>>
       \/ /\ pn \in pools
          /\ \E block \in UnusedBlocks(pn) :
                /\ owner' = [owner EXCEPT ![block] = "me"]
                /\ myBlocks' = [myBlocks EXCEPT ![pn] = Append(@, block)]
                /\ req' = [req EXCEPT ![p] =
                      IF dryRun
                      THEN Prepend(Logged(@, "AcquireBlock", block, "nil"), block)
                      ELSE [Logged(@, "AcquireBlock", block, "nil") EXCEPT !.block = block, !.pc = "addBlockRouting"]]
    /\ UNCHANGED <<pools, assign, rev, routes, dryRun, faults, ctl, nreq, granted, memVars>>

\* faulty variant: the route is installed whatever s.dryRun says
NewIP_AcquireBlock_AlwaysRoute(p) ==
    /\ req[p].op = "new" /\ req[p].pc = "AllocateIP" /\ NoDone
    /\ req[p].idx > Len(req[p].bl)
    /\ LET pn == req[p].poolName IN
       \/ /\ pn \notin pools
          /\ req' = [req EXCEPT ![p] = Done(Logged(@, "AcquireBlock", Nil, "ErrNotFound"), "PoolNotFound", Nil)]
          /\ UNCHANGED <<owner, myBlocks>>
       \/ /\ pn \in pools /\ UnusedBlocks(pn) = {}
          /\ req' = [req EXCEPT ![p] = Done(Logged(@, "AcquireBlock", Nil, "ErrOutOfBlocks"), "Unavailable", Nil)]
          /\ UNCHANGED <<owner, myBlocks>>
       \/ /\ pn \in pools
          /\ \E block \in UnusedBlocks(pn) :
                /\ owner' = [owner EXCEPT ![block] = "me"]
                /\ myBlocks' = [myBlocks EXCEPT ![pn] = Append(@, block)]
                /\ req' = [req EXCEPT ![p] =
                      [Logged(@, "AcquireBlock", block, "nil") EXCEPT !.block = block, !.pc = "addBlockRouting"]]
    /\ UNCHANGED <<pools, assign, rev, routes, dryRun, faults, ctl, nreq, granted, memVars>>

\* ip.go 124-153 (and 165-169 when s.dryRun): the scan found no address
NewIP_AcquireBlock(p) ==
    /\ req[p].op = "new" /\ req[p].pc = "AllocateIP" /\ NoDone
    /\ req[p].idx > Len(req[p].bl)
    /\ LET pn == req[p].poolName IN
       \/ /\ pn \notin pools
          /\ req' = [req EXCEPT ![p] = Done(Logged(@, "AcquireBlock", Nil, "ErrNotFound"), "PoolNotFound", Nil)]
          /\ UNCHANGED <<owner, myBlocks, faults>>
       \/ /\ pn \in pools /\ UnusedBlocks(pn) = {}
          /\ req' = [req EXCEPT ![p] = Done(Logged(@, "AcquireBlock", Nil, "ErrOutOfBlocks"), "Unavailable", Nil)]
          /\ UNCHANGED <<owner, myBlocks, faults>>
       \/ /\ pn \in pools
          /\ \E block \in UnusedBlocks(pn) :
                /\ owner' = [owner EXCEPT ![block] = "me"]
                /\ myBlocks' = [myBlocks EXCEPT ![pn] = Append(@, block)]
                /\ req' = [req EXCEPT ![p] =
                      IF dryRun
                      THEN Prepend(Logged(@, "AcquireBlock", block, "nil"), block)
                      ELSE [Logged(@, "AcquireBlock", block, "nil") EXCEPT !.block = block, !.pc = "addBlockRouting"]]
          /\ UNCHANGED faults
       \/ /\ CanFail
          /\ faults' = faults + 1
          /\ req' = [req EXCEPT ![p] = InternalServerError(Logged(@, "AcquireBlock", Nil, "error"), "store")]
          /\ UNCHANGED <<owner, myBlocks>>
    /\ UNCHANGED <<pools, assign, rev, routes, dryRun, ctl, nreq, granted, memVars>>

\* faulty variant: a failure of addBlockRouting is ignored
NewIP_addBlockRouting_Ignore(p) ==
    /\ req[p].op = "new" /\ req[p].pc = "addBlockRouting" /\ NoDone
    /\ \/ /\ routes' = routes \cup {req[p].block}
          /\ req' = [req EXCEPT ![p] =
                Prepend(Logged(@, "addBlockRouting", req[p].block, "nil"), req[p].block)]
          /\ UNCHANGED faults
       \/ /\ CanFail
          /\ faults' = faults + 1
          /\ req' = [req EXCEPT ![p] =
                Prepend(Logged(@, "addBlockRouting", req[p].block, "error"), req[p].block)]
          /\ UNCHANGED routes
    /\ UNCHANGED <<storeVars, dryRun, ctl, nreq, granted, memVars>>

\* ip.go 155-169: the route of the new block, then the prepend and goto RETRY
NewIP_addBlockRouting(p) ==
    /\ req[p].op = "new" /\ req[p].pc = "addBlockRouting" /\ NoDone
    /\ \/ /\ routes' = routes \cup {req[p].block}
          /\ req' = [req EXCEPT ![p] =
                Prepend(Logged(@, "addBlockRouting", req[p].block, "nil"), req[p].block)]
          /\ UNCHANGED faults
       \/ /\ CanFail
          /\ faults' = faults + 1
          /\ req' = [req EXCEPT ![p] = InternalServerError(Logged(@, "addBlockRouting", req[p].block, "error"), "route")]
          /\ UNCHANGED routes
    /\ UNCHANGED <<storeVars, dryRun, ctl, nreq, granted, memVars>>

(* ---------------------------- handleIPDelete --------------------------- *)
\* the block of the snapshot that contains ip (ip.go 214-223), Nil when none does
FindBlock(blocks, ip) ==
    LET hits == {b \in UNION {SeqToSet(blocks[pn]) : pn \in PoolNames} : Contains(b, ip)}
    IN IF hits = {} THEN Nil ELSE CHOOSE b \in hits : TRUE

\* ip.go 190-202: the snapshot of the blocks of this node
Del_GetMyBlocks(p, cid) ==
    /\ FirstFree(p)
    /\ \/ /\ req' = Started(p,
                [Logged(Idle, "GetMyBlocks", Nil, "nil") EXCEPT
                    !.op = "del", !.cid = cid, !.live0 = AllocatedIPs(cid),
                    !.blocks = myBlocks, !.pc = "getAllocatedIP"])
          /\ UNCHANGED faults
       \/ /\ CanFail
          /\ faults' = faults + 1
          /\ req' = Started(p,
                InternalServerError(
                    [Logged(Idle, "GetMyBlocks", Nil, "error") EXCEPT
                        !.op = "del", !.cid = cid, !.live0 = AllocatedIPs(cid)],
                    "store"))
    /\ nreq' = nreq + 1
    /\ UNCHANGED <<storeVars, routes, dryRun, ctl, granted, memVars>>

\* faulty variant: an address outside every block is answered like "not found"
Del_getAllocatedIP_SilentOrphan(p) ==
    /\ req[p].op = "del" /\ req[p].pc = "getAllocatedIP" /\ NoDone
    /\ \/ /\ AllocatedIPs(req[p].cid) = {}
          /\ req' = [req EXCEPT ![p] = Done(Logged(@, "getAllocatedIP", Nil, "ErrNotFound"), "OK", Nil)]
       \/ /\ \E ip \in AllocatedIPs(req[p].cid) :
                LET block == FindBlock(req[p].blocks, ip)
                    r == [Logged(req[p], "getAllocatedIP", ip, "nil") EXCEPT !.ip = ip, !.block = block]
                IN req' = [req EXCEPT ![p] =
                      IF block = Nil
                      THEN Done(r, "OK", Nil)
                      ELSE [r EXCEPT !.pc = "GetAddressInfo"]]
    /\ UNCHANGED <<storeVars, routes, dryRun, faults, ctl, nreq, granted, memVars>>

\* ip.go 204-231: the lookup of the assignment, then the search of its block
Del_getAllocatedIP(p) ==
    /\ req[p].op = "del" /\ req[p].pc = "getAllocatedIP" /\ NoDone
    /\ \/ /\ AllocatedIPs(req[p].cid) = {}
          /\ req' = [req EXCEPT ![p] = Done(Logged(@, "getAllocatedIP", Nil, "ErrNotFound"), "OK", Nil)]
          /\ UNCHANGED faults
       \/ /\ \E ip \in AllocatedIPs(req[p].cid) :
                LET block == FindBlock(req[p].blocks, ip)
                    r == [Logged(req[p], "getAllocatedIP", ip, "nil") EXCEPT !.ip = ip, !.block = block]
                IN req' = [req EXCEPT ![p] =
                      IF block = Nil
                      THEN InternalServerError(r, "orphaned IP address")
                      ELSE [r EXCEPT !.pc = "GetAddressInfo"]]
          /\ UNCHANGED faults
       \/ /\ CanFail
          /\ faults' = faults + 1
          /\ req' = [req EXCEPT ![p] = InternalServerError(Logged(@, "getAllocatedIP", Nil, "error"), "store")]
    /\ UNCHANGED <<storeVars, routes, dryRun, ctl, nreq, granted, memVars>>

\* faulty variant: the containerID of the assignment is not compared
Del_GetAddressInfo_NoCheck(p) ==
    /\ req[p].op = "del" /\ req[p].pc = "GetAddressInfo" /\ NoDone
    /\ LET ip == req[p].ip IN
       \/ /\ assign[ip] = NoAssign
          /\ req' = [req EXCEPT ![p] = Done(Logged(@, "GetAddressInfo", ip, "ErrNotFound"), "OK", Nil)]
       \/ /\ assign[ip] /= NoAssign
          /\ req' = [req EXCEPT ![p] =
                [Logged(@, "GetAddressInfo", ip, "nil") EXCEPT !.modRev = assign[ip].rev, !.pc = "FreeIP"]]
    /\ UNCHANGED <<storeVars, routes, dryRun, faults, ctl, nreq, granted, memVars>>

\* ip.go 233-245: the assignment and its revision, then the containerID check
Del_GetAddressInfo(p) ==
    /\ req[p].op = "del" /\ req[p].pc = "GetAddressInfo" /\ NoDone
    /\ LET ip == req[p].ip IN
       \/ /\ assign[ip] = NoAssign
          /\ req' = [req EXCEPT ![p] = Done(Logged(@, "GetAddressInfo", ip, "ErrNotFound"), "OK", Nil)]
          /\ UNCHANGED faults
       \/ /\ assign[ip] /= NoAssign
          /\ req' = [req EXCEPT ![p] =
                IF assign[ip].cid /= req[p].cid
                THEN Done(Logged(@, "GetAddressInfo", ip, "nil"), "OK", Nil)
                ELSE [Logged(@, "GetAddressInfo", ip, "nil") EXCEPT !.modRev = assign[ip].rev, !.pc = "FreeIP"]]
          /\ UNCHANGED faults
       \/ /\ CanFail
          /\ faults' = faults + 1
          /\ req' = [req EXCEPT ![p] = InternalServerError(Logged(@, "GetAddressInfo", ip, "error"), "store")]
    /\ UNCHANGED <<storeVars, routes, dryRun, ctl, nreq, granted, memVars>>

\* faulty variant: ErrModRevDiffers is answered like any other error of FreeIP
Del_FreeIP_Strict(p) ==
    /\ req[p].op = "del" /\ req[p].pc = "FreeIP" /\ NoDone
    /\ LET ip == req[p].ip IN
       \/ /\ assign[ip] /= NoAssign /\ assign[ip].rev = req[p].modRev
          /\ assign' = [assign EXCEPT ![ip] = NoAssign]
          /\ granted' = [granted EXCEPT ![ip] = 0]
          /\ req' = [req EXCEPT ![p] =
                [Done(Logged(@, "FreeIP", ip, "nil"), "OK", ip) EXCEPT !.freed = assign[ip].cid]]
       \/ /\ ~(assign[ip] /= NoAssign /\ assign[ip].rev = req[p].modRev)
          /\ req' = [req EXCEPT ![p] = InternalServerError(Logged(@, "FreeIP", ip, "ErrModRevDiffers"), "store")]
          /\ UNCHANGED <<assign, granted>>
    /\ UNCHANGED <<pools, owner, myBlocks, rev, routes, dryRun, faults, ctl, nreq, memVars>>

\* ip.go 247-258: the conditional free; ErrModRevDiffers is not an error
Del_FreeIP(p) ==
    /\ req[p].op = "del" /\ req[p].pc = "FreeIP" /\ NoDone
    /\ LET ip == req[p].ip IN
       \/ /\ assign[ip] /= NoAssign /\ assign[ip].rev = req[p].modRev
          /\ assign' = [assign EXCEPT ![ip] = NoAssign]
          /\ granted' = [granted EXCEPT ![ip] = 0]
          /\ req' = [req EXCEPT ![p] =
                [Done(Logged(@, "FreeIP", ip, "nil"), "OK", ip) EXCEPT !.freed = assign[ip].cid]]
          /\ UNCHANGED faults
       \/ /\ ~(assign[ip] /= NoAssign /\ assign[ip].rev = req[p].modRev)
          /\ req' = [req EXCEPT ![p] = Done(Logged(@, "FreeIP", ip, "ErrModRevDiffers"), "OK", ip)]
          /\ UNCHANGED <<assign, granted, faults>>
       \/ /\ CanFail
          /\ faults' = faults + 1
          /\ req' = [req EXCEPT ![p] = InternalServerError(Logged(@, "FreeIP", ip, "error"), "store")]
          /\ UNCHANGED <<assign, granted>>
    /\ UNCHANGED <<pools, owner, myBlocks, rev, routes, dryRun, ctl, nreq, memVars>>

(* ============ the server that keeps its state in memory =============== *)
(* handleNewIP and handleIPDelete of the variant of ip.go that holds       *)
(* podIPs and addressBlocks in the Server and serialises its handlers with *)
(* s.mu. The lock is taken by Lock and released when the handler returns.  *)
Unlocked == mu = Nil

\* lines 33-68: the input has passed the validation; the pool name is
\* determined before the lock is taken
Mem_determinePoolName(p, ns, cid) ==
    /\ FirstFree(p)
    /\ \E err \in {IF GetPoolFound(ns) THEN "nil" ELSE "ErrNotFound", "error"} :
          LET r == Logged([Idle EXCEPT !.op = "new", !.ns = ns, !.cid = cid, !.live0 = AllocatedIPs(cid)],
                          "GetPool", Nil, err)
              pn == determinePoolName(ns, err)
          IN IF pn.err = "nil"
             THEN /\ req' = Started(p, [r EXCEPT !.poolName = pn.name, !.pc = "Lock",
                                                 !.unused0 = Cardinality(UnusedBlocks(pn.name))])
                  /\ UNCHANGED faults
             ELSE /\ CanFail
                  /\ faults' = faults + 1
                  /\ req' = Started(p, InternalServerError(r, "store"))
    /\ nreq' = nreq + 1
    /\ UNCHANGED <<storeVars, routes, dryRun, ctl, granted, memVars>>

\* lines 70-79: the lock, the conflict check on podIPs, bl := s.addressBlocks[poolName]
Mem_NewIP_Lock(p) ==
    /\ req[p].op = "new" /\ req[p].pc = "Lock" /\ NoDone
    /\ Unlocked
    /\ IF podIPs[req[p].cid] /= Nil
       THEN /\ req' = [req EXCEPT ![p] = Done(@, "Conflict", Nil)]
            /\ UNCHANGED mu
       ELSE /\ req' = [req EXCEPT ![p] =
                  [@ EXCEPT !.bl = addressBlocks[req[p].poolName], !.idx = 1, !.pc = "AllocateIP"]]
            /\ mu' = p
    /\ UNCHANGED <<storeVars, routes, dryRun, faults, ctl, nreq, granted, podIPs, addressBlocks>>

\* lines 82-106: one iteration of "for _, block := range bl"
Mem_NewIP_AllocateIP(p) ==
    /\ req[p].op = "new" /\ req[p].pc = "AllocateIP" /\ NoDone /\ mu = p
    /\ req[p].idx <= Len(req[p].bl)
    /\ LET block == req[p].bl[req[p].idx] IN
       \/ /\ AllocateIPFull(block)
          /\ req' = [req EXCEPT ![p] =
                [Probed(@, block, "ErrBlockIsFull") EXCEPT !.idx = @ + 1]]
          /\ UNCHANGED <<assign, rev, granted, faults, podIPs, mu>>
       \/ /\ ~AllocateIPFull(block)
          /\ LET ip == AllocateIPAddr(block) IN
             /\ assign' = [assign EXCEPT ![ip] = [cid |-> req[p].cid, rev |-> rev + 1]]
             /\ rev' = rev + 1
             /\ granted' = [granted EXCEPT ![ip] = @ + 1]
             /\ podIPs' = [podIPs EXCEPT ![req[p].cid] = ip]
             /\ req' = [req EXCEPT ![p] = Done(Probed(@, block, "nil"), "OK", ip)]
          /\ mu' = Nil
          /\ UNCHANGED faults
       \/ /\ CanFail
          /\ faults' = faults + 1
          /\ req' = [req EXCEPT ![p] = InternalServerError(Probed(@, block, "error"), "store")]
          /\ mu' = Nil
          /\ UNCHANGED <<assign, rev, granted, podIPs>>
    /\ UNCHANGED <<pools, owner, myBlocks, routes, dryRun, ctl, nreq, addressBlocks>>

\* lines 149-154: the new block goes in front, in bl and in s.addressBlocks
Mem_Prepend(r, block) == [r EXCEPT !.bl = <<block>> \o @, !.idx = 1, !.pc = "AllocateIP"]

\* lines 108-137 (and 149-154 when s.dryRun): the scan found no address
Mem_NewIP_AcquireBlock(p) ==
    /\ req[p].op = "new" /\ req[p].pc = "AllocateIP" /\ NoDone /\ mu = p
    /\ req[p].idx > Len(req[p].bl)
    /\ LET pn == req[p].poolName IN
       \/ /\ pn \notin pools
          /\ req' = [req EXCEPT ![p] = Done(Logged(@, "AcquireBlock", Nil, "ErrNotFound"), "PoolNotFound", Nil)]
          /\ mu' = Nil
          /\ UNCHANGED <<owner, myBlocks, faults, addressBlocks>>
       \/ /\ pn \in pools /\ UnusedBlocks(pn) = {}
          /\ req' = [req EXCEPT ![p] = Done(Logged(@, "AcquireBlock", Nil, "ErrOutOfBlocks"), "Unavailable", Nil)]
          /\ mu' = Nil
          /\ UNCHANGED <<owner, myBlocks, faults, addressBlocks>>
       \/ /\ pn \in pools
          /\ \E block \in UnusedBlocks(pn) :
                /\ owner' = [owner EXCEPT ![block] = "me"]
                /\ myBlocks' = [myBlocks EXCEPT ![pn] = Append(@, block)]
                /\ IF dryRun
                   THEN /\ req' = [req EXCEPT ![p] = Mem_Prepend(Logged(@, "AcquireBlock", block, "nil"), block)]
                        /\ addressBlocks' = [addressBlocks EXCEPT ![pn] = <<block>> \o req[p].bl]
                   ELSE /\ req' = [req EXCEPT ![p] =
                              [Logged(@, "AcquireBlock", block, "nil") EXCEPT !.block = block, !.pc = "addBlockRouting"]]
                        /\ UNCHANGED addressBlocks
          /\ UNCHANGED <<faults, mu>>
       \/ /\ CanFail
          /\ faults' = faults + 1
          /\ req' = [req EXCEPT ![p] = InternalServerError(Logged(@, "AcquireBlock", Nil, "error"), "store")]
          /\ mu' = Nil
          /\ UNCHANGED <<owner, myBlocks, addressBlocks>>
    /\ UNCHANGED <<pools, assign, rev, routes, dryRun, ctl, nreq, granted, podIPs>>

\* lines 139-154: the route of the new block, then the prepend and goto RETRY
Mem_NewIP_addBlockRouting(p) ==
    /\ req[p].op = "new" /\ req[p].pc = "addBlockRouting" /\ NoDone /\ mu = p
    /\ \/ /\ routes' = routes \cup {req[p].block}
          /\ req' = [req EXCEPT ![p] =
                Mem_Prepend(Logged(@, "addBlockRouting", req[p].block, "nil"), req[p].block)]
          /\ addressBlocks' = [addressBlocks EXCEPT ![req[p].poolName] = <<req[p].block>> \o req[p].bl]
          /\ UNCHANGED <<faults, mu>>
       \/ /\ CanFail
          /\ faults' = faults + 1
          /\ req' = [req EXCEPT ![p] = InternalServerError(Logged(@, "addBlockRouting", req[p].block, "error"), "route")]
          /\ mu' = Nil
          /\ UNCHANGED <<routes, addressBlocks>>
    /\ UNCHANGED <<storeVars, dryRun, ctl, nreq, granted, podIPs>>

\* lines 179-189: the key of the address: the containerID, else namespace/pod
KeyOf(ns, pod, cid) ==
    IF podIPs[cid] /= Nil THEN cid
    ELSE IF podIPs[LegacyKey(ns, pod)] /= Nil THEN LegacyKey(ns, pod)
    ELSE ""

\* lines 175-208: the lock, the lookup in podIPs, the search of the block in
\* s.addressBlocks
Mem_Del_Lock(p, ns, cid) ==
    /\ FirstFree(p)
    /\ Unlocked
    /\ LET r == [Idle EXCEPT !.op = "del", !.ns = ns, !.cid = cid, !.live0 = AllocatedIPs(cid)]
           key == KeyOf(ns, PodOf[cid], cid)
       IN IF key = ""
          THEN /\ req' = Started(p, Done(r, "NotFound", Nil))
               /\ UNCHANGED mu
          ELSE LET ip == podIPs[key]
                   block == FindBlock(addressBlocks, ip)
                   r2 == [r EXCEPT !.key = key, !.ip = ip, !.block = block, !.blocks = addressBlocks]
               IN IF block = Nil
                  THEN /\ req' = Started(p, InternalServerError(r2, "orphaned IP address"))
                       /\ UNCHANGED mu
                  ELSE /\ req' = Started(p, [r2 EXCEPT !.pc = "FreeIP"])
                       /\ mu' = p
    /\ nreq' = nreq + 1
    /\ UNCHANGED <<storeVars, routes, dryRun, faults, ctl, granted, podIPs, addressBlocks>>

\* lines 210-223: FreeIP(block, ip), then delete(s.podIPs, key)
Mem_Del_FreeIP(p) ==
    /\ req[p].op = "del" /\ req[p].pc = "FreeIP" /\ NoDone /\ mu = p
    /\ LET ip == req[p].ip IN
       \/ /\ assign' = [assign EXCEPT ![ip] = NoAssign]
          /\ granted' = [granted EXCEPT ![ip] = 0]
          /\ podIPs' = [podIPs EXCEPT ![req[p].key] = Nil]
          /\ req' = [req EXCEPT ![p] =
                [Done(Logged(@, "FreeIP", ip, "nil"), "OK", ip) EXCEPT !.freed = assign[ip].cid]]
          /\ UNCHANGED faults
       \/ /\ CanFail
          /\ faults' = faults + 1
          /\ req' = [req EXCEPT ![p] = InternalServerError(Logged(@, "FreeIP", ip, "error"), "store")]
          /\ UNCHANGED <<assign, granted, podIPs>>
    /\ mu' = Nil
    /\ UNCHANGED <<pools, owner, myBlocks, rev, routes, dryRun, ctl, nreq, addressBlocks>>

(* ------------------------- the end of a request ------------------------ *)
\* the response has been written and the handler has returned
Return(p) ==
    /\ req[p].pc = "done"
    /\ req' = [req EXCEPT ![p] = Idle]
    /\ UNCHANGED <<storeVars, routes, dryRun, faults, ctl, nreq, granted, memVars>>

(* --------------------------- coil-controller --------------------------- *)
\* the controller takes a block away from this node
Ctl_ReclaimBlock(b) ==
    /\ CanAct /\ NoDone
    /\ owner[b] = "me"
    /\ ctl' = ctl + 1
    /\ owner' = [owner EXCEPT ![b] = "none"]
    /\ myBlocks' = [pn \in PoolNames |-> RemoveFromSeq(myBlocks[pn], b)]
    /\ req' = Overlapped(req)
    /\ UNCHANGED <<pools, assign, rev, routes, dryRun, faults, nreq, granted, memVars>>

\* the controller frees an address
Ctl_FreeIP(a) ==
    /\ CanAct /\ NoDone
    /\ assign[a] /= NoAssign
    /\ ctl' = ctl + 1
    /\ assign' = [assign EXCEPT ![a] = NoAssign]
    /\ granted' = [granted EXCEPT ![a] = 0]
    /\ req' = Overlapped(req)
    /\ UNCHANGED <<pools, owner, myBlocks, rev, routes, dryRun, faults, nreq, memVars>>

\* another node acquires an unused block
Other_AcquireBlock(b) ==
    /\ CanAct /\ NoDone
    /\ owner[b] = "none"
    /\ ctl' = ctl + 1
    /\ owner' = [owner EXCEPT ![b] = "other"]
    /\ req' = Overlapped(req)
    /\ UNCHANGED <<pools, myBlocks, assign, rev, routes, dryRun, faults, nreq, granted, memVars>>

(* ------------------------------- Next ----------------------------------- *)
Next ==
    \/ \E p \in Procs, ns \in Namespaces, cid \in Containers : NewIP_determinePoolName(p, ns, cid)
    \/ \E p \in Procs : NewIP_getAllocatedIP(p)
    \/ \E p \in Procs : NewIP_GetMyBlocks(p)
    \/ \E p \in Procs : NewIP_AllocateIP(p)
    \/ \E p \in Procs : NewIP_AcquireBlock(p)
    \/ \E p \in Procs : NewIP_addBlockRouting(p)
    \/ \E p \in Procs, cid \in Containers : Del_GetMyBlocks(p, cid)
    \/ \E p \in Procs : Del_getAllocatedIP(p)
    \/ \E p \in Procs : Del_GetAddressInfo(p)
    \/ \E p \in Procs : Del_FreeIP(p)
    \/ \E p \in Procs : Return(p)
    \/ \E b \in Blocks : Ctl_ReclaimBlock(b)
    \/ \E a \in Addrs : Ctl_FreeIP(a)
    \/ \E b \in Blocks : Other_AcquireBlock(b)

Spec == Init /\ [][Next]_vars

\* allocate requests only, each handler scheduled again and again (every
\* store call returns): the setting of the termination of handleNewIP
Step(p) ==
    \/ NewIP_getAllocatedIP(p)
    \/ NewIP_GetMyBlocks(p)
    \/ NewIP_AllocateIP(p)
    \/ NewIP_AcquireBlock(p)
    \/ NewIP_addBlockRouting(p)
    \/ Return(p)

AllocNext ==
    \/ \E p \in Procs, ns \in Namespaces, cid \in Containers : NewIP_determinePoolName(p, ns, cid)
    \/ \E p \in Procs : NewIP_getAllocatedIP(p)
    \/ \E p \in Procs : NewIP_GetMyBlocks(p)
    \/ \E p \in Procs : NewIP_AllocateIP(p)
    \/ \E p \in Procs : NewIP_AcquireBlock(p)
    \/ \E p \in Procs : NewIP_addBlockRouting(p)
    \/ \E p \in Procs : Return(p)

FairSpec == Init /\ [][AllocNext]_vars /\ \A p \in Procs : WF_vars(Step(p))

\* the server that keeps its state in memory, with the same store and controller
MemNext ==
    \/ \E p \in Procs, ns \in Namespaces, cid \in Containers : Mem_determinePoolName(p, ns, cid)
    \/ \E p \in Procs : Mem_NewIP_Lock(p)
    \/ \E p \in Procs : Mem_NewIP_AllocateIP(p)
    \/ \E p \in Procs : Mem_NewIP_AcquireBlock(p)
    \/ \E p \in Procs : Mem_NewIP_addBlockRouting(p)
    \/ \E p \in Procs, ns \in Namespaces, cid \in Containers : Mem_Del_Lock(p, ns, cid)
    \/ \E p \in Procs : Mem_Del_FreeIP(p)
    \/ \E p \in Procs : Return(p)
    \/ \E b \in Blocks : Ctl_ReclaimBlock(b)
    \/ \E a \in Addrs : Ctl_FreeIP(a)
    \/ \E b \in Blocks : Other_AcquireBlock(b)

SpecMem == Init /\ [][MemNext]_vars

(* ======================= properties of the claims ====================== *)
DoneNew(p) == req[p].op = "new" /\ req[p].pc = "done"
DoneDel(p) == req[p].op = "del" /\ req[p].pc = "done"
\* the request of slot p met an infrastructure error
Faulted(p) == req[p].res = "Internal" /\ req[p].err \in {"store", "route"}
\* the entries of a log that are calls of the given name
CallsOf(log, name) == {i \in 1..Len(log) : log[i].call = name}
LastCall(p) == req[p].log[Len(req[p].log)]

\* C1 (uniqueness): however allocate requests interleave, an address that is
\* held is the address of one successful allocate response only: no address
\* is handed out again before it has been freed.
C1_Uniqueness == \A a \in Addrs : granted[a] <= 1

\* two allocate requests that overlapped, for different containers, both got
\* an address of the same block: the two requests of the run overlapped (the
\* controller did nothing), the second to answer got an address of a block
\* that was empty when coild started, and another container holds another
\* address of that block
C1_Witness ==
    \E p \in Procs :
        /\ DoneNew(p) /\ req[p].res = "OK" /\ ~req[p].alone
        /\ nreq = 2 /\ ctl = 0
        /\ \E b \in Blocks \ {Min(Blocks)} : \E a \in BlockAddrs(b) \ {req[p].addr} :
              /\ Contains(b, req[p].addr)
              /\ assign[a] /= NoAssign /\ assign[a].cid /= req[p].cid
              /\ granted[a] = 1

\* C2 (one live assignment): in every reachable state a containerID has at
\* most one live assignment and an address has at most one.
C2_OneLiveAssignment ==
    /\ \A c \in Containers : Cardinality(AllocatedIPs(c)) <= 1
    /\ \A a \in Addrs : granted[a] <= 1

\* C3 (conflict rejection): an allocate request that runs alone for a
\* container that already holds an address ends with the conflict error (or
\* with the infrastructure error of one of its two lookups), makes no other
\* call and leaves the container with the address it had; and an allocate
\* request that runs alone and succeeds was for a container that held none.
C3_ConflictRejection ==
    \A p \in Procs :
        DoneNew(p) /\ req[p].alone =>
            /\ req[p].live0 /= {} =>
                  /\ req[p].res = "Conflict" \/ Faulted(p)
                  /\ \A i \in 1..Len(req[p].log) : req[p].log[i].call \in {"GetPool", "getAllocatedIP"}
                  /\ req[p].addr = Nil
                  /\ AllocatedIPs(req[p].cid) = req[p].live0
            /\ req[p].res = "OK" =>
                  /\ req[p].live0 = {}
                  /\ AllocatedIPs(req[p].cid) = {req[p].addr}

\* the second of two allocate requests for "c2", which holds no address when
\* coild starts, is rejected
C3_Witness ==
    \E p \in Procs :
        /\ DoneNew(p) /\ req[p].alone /\ req[p].cid = "c2"
        /\ req[p].res = "Conflict"
        /\ nreq = MaxReq

\* C6 (escalation order): an allocate request that runs alone and finds no
\* address in the blocks the node owns calls AcquireBlock exactly once; when
\* that call hands out a block and no infrastructure error follows, the next
\* AllocateIP of the request is on the new block, which is in front of every
\* block tried before, and the address of the response lies inside it.
C6_EscalationOrder ==
    \A p \in Procs :
        DoneNew(p) /\ req[p].alone /\ CallsOf(req[p].log, "AcquireBlock") /= {} =>
            LET log == req[p].log
                i == Min(CallsOf(log, "AcquireBlock"))
                later == {j \in CallsOf(log, "AllocateIP") : j > i}
            IN /\ CallsOf(log, "AcquireBlock") = {i}
               /\ \A j \in CallsOf(log, "AllocateIP") : j < i => log[j].out = "ErrBlockIsFull"
               /\ log[i].out = "nil" /\ ~Faulted(p) =>
                     /\ later /= {}
                     /\ log[Min(later)].arg = log[i].arg
                     /\ log[Min(later)].out = "nil"
                     /\ req[p].res = "OK"
                     /\ Contains(log[i].arg, req[p].addr)

\* a request found the block of the node full, acquired the other block of
\* the pool and answered with an address of it
C6_Witness ==
    \E p \in Procs :
        /\ DoneNew(p) /\ req[p].alone /\ req[p].res = "OK"
        /\ \E j \in CallsOf(req[p].log, "AllocateIP") : req[p].log[j].out = "ErrBlockIsFull"
        /\ \E i \in CallsOf(req[p].log, "AcquireBlock") :
              req[p].log[i].out = "nil" /\ Contains(req[p].log[i].arg, req[p].addr)

\* C7 (exhaustion terminality): an AcquireBlock that answers ErrOutOfBlocks
\* or ErrNotFound is the last call of its request: the request is over, with
\* the capacity error (503) for the former and the pool-not-found error for
\* the latter, and without an address.
C7_ExhaustionTerminal ==
    \A p \in Procs : \A i \in CallsOf(req[p].log, "AcquireBlock") :
        LET out == req[p].log[i].out IN
        out \in {"ErrOutOfBlocks", "ErrNotFound"} =>
            /\ i = Len(req[p].log)
            /\ req[p].pc = "done"
            /\ req[p].addr = Nil
            /\ req[p].res = (IF out = "ErrOutOfBlocks" THEN "Unavailable" ELSE "PoolNotFound")

\* every block of the node was full and the pool had no block left
C7_Witness ==
    \E p \in Procs :
        /\ DoneNew(p) /\ req[p].res = "Unavailable"
        /\ \E j \in CallsOf(req[p].log, "AllocateIP") : req[p].log[j].out = "ErrBlockIsFull"
        /\ LastCall(p).out = "ErrOutOfBlocks"

\* C8 (stale conflict on release): a release calls FreeIP at most once, as
\* its last call; when FreeIP answers ErrModRevDiffers the release still
\* answers 200 with the address.
C8_StaleConflictTolerated ==
    \A p \in Procs : \A i \in CallsOf(req[p].log, "FreeIP") :
        /\ i = Len(req[p].log)
        /\ req[p].pc = "done"
        /\ req[p].log[i].out = "ErrModRevDiffers" =>
              /\ req[p].res = "OK"
              /\ req[p].addr = req[p].ip
              /\ req[p].addr /= Nil

\* the assignment read by a release was gone, or had another revision, when
\* its FreeIP arrived
C8_Witness ==
    \E p \in Procs :
        /\ DoneDel(p) /\ req[p].res = "OK"
        /\ LastCall(p).call = "FreeIP" /\ LastCall(p).out = "ErrModRevDiffers"
        /\ req[p].ip \in req[p].live0

\* C9 (pool fallback): the pool of an allocate request is its namespace when
\* GetPool finds a pool of that name, "default" when GetPool answers
\* ErrNotFound, and on any other error there is no pool name: the request
\* ends with an internal error after that one call, without an address.
C9_PoolFallback ==
    \A p \in Procs : req[p].op = "new" =>
        LET first == req[p].log[1] IN
        /\ first.call = "GetPool"
        /\ first.out = "nil" => req[p].ns \in pools /\ req[p].poolName = req[p].ns
        /\ first.out = "ErrNotFound" => req[p].ns \notin pools /\ req[p].poolName = "default"
        /\ first.out \notin {"nil", "ErrNotFound"} =>
              /\ req[p].poolName = ""
              /\ req[p].pc = "done" /\ req[p].res = "Internal" /\ req[p].addr = Nil
              /\ Len(req[p].log) = 1

\* one request of namespace "ns2" went on with pool "default"
C9_Witness ==
    \E p \in Procs :
        /\ req[p].op = "new" /\ req[p].ns = "ns2" /\ req[p].poolName = "default"
        /\ Len(req[p].log) > 1

\* C10 (orphan detection): when the address found for the container lies in
\* no block of the snapshot, the release ends with the internal error
\* "orphaned IP address": it calls neither GetAddressInfo nor FreeIP, returns
\* no address, and (run alone) leaves the assignment as it was.
C10_OrphanDetection ==
    \A p \in Procs :
        /\ req[p].op = "del" /\ Len(req[p].log) >= 2
        /\ req[p].log[2].call = "getAllocatedIP" /\ req[p].log[2].out = "nil"
        /\ FindBlock(req[p].blocks, req[p].ip) = Nil
        => /\ req[p].pc = "done"
           /\ req[p].res = "Internal" /\ req[p].err = "orphaned IP address"
           /\ req[p].addr = Nil
           /\ Len(req[p].log) = 2
           /\ req[p].alone => assign[req[p].ip] /= NoAssign /\ assign[req[p].ip].cid = req[p].cid

\* a release found the address of its container in a block the node had lost
C10_Witness ==
    \E p \in Procs :
        /\ DoneDel(p) /\ req[p].err = "orphaned IP address"
        /\ req[p].ip \in req[p].live0
        /\ \A pn \in PoolNames : req[p].blocks[pn] = <<>>

\* the release ended with the orphan error
Orphaned(p) == req[p].res = "Internal" /\ req[p].err = "orphaned IP address"

\* C4 (idempotent release): a release that runs alone,
\* without infrastructure error, for a container that holds an address in a
\* block of the node answers 200 with that address, and the container holds
\* none afterwards; a release that runs alone for a container that holds no
\* address (the second of two releases) answers 200 with the empty address.
C4_IdempotentRelease ==
    \A p \in Procs :
        DoneDel(p) /\ req[p].alone /\ ~Faulted(p) =>
            /\ req[p].live0 /= {} /\ ~Orphaned(p) =>
                  /\ req[p].res = "OK"
                  /\ req[p].addr \in req[p].live0
                  /\ AllocatedIPs(req[p].cid) = {}
            /\ req[p].live0 = {} =>
                  /\ req[p].res = "OK"
                  /\ req[p].addr = Nil

\* the second of two releases for "c1" has been answered
C4_Witness ==
    \E p \in Procs :
        /\ DoneDel(p) /\ req[p].alone /\ req[p].cid = "c1"
        /\ req[p].live0 = {} /\ nreq = MaxReq
        /\ \A a \in Addrs : assign[a].cid /= "c1"
        /\ rev = BlockSize

\* C5 (release of nothing): a release for a container
\* that holds no address, when it arrives and when it is looked up, answers
\* 200 with the empty address, never "not found", and calls nothing that
\* changes the store.
C5_ReleaseOfNothing ==
    \A p \in Procs :
        DoneDel(p) /\ req[p].live0 = {} /\ req[p].ip = Nil /\ ~Faulted(p) =>
            /\ req[p].res = "OK"
            /\ req[p].addr = Nil
            /\ CallsOf(req[p].log, "FreeIP") = {}

\* a release for a container without address has been answered
C5_Witness ==
    \E p \in Procs :
        /\ DoneDel(p) /\ req[p].live0 = {} /\ req[p].ip = Nil /\ ~Faulted(p)
        /\ req[p].cid = "c2"

\* C11 (a release frees its own assignment only): under every interleaving,
\* the assignment removed by the FreeIP of a release for container c was
\* recorded for c; and a release whose GetAddressInfo found the address
\* assigned to another container answers 200 with the empty address and
\* does not call FreeIP.
C11_ReleaseFreesOwnOnly ==
    \A p \in Procs : req[p].op = "del" =>
        /\ req[p].freed \in {"", req[p].cid}
        /\ \A i \in CallsOf(req[p].log, "FreeIP") :
              req[p].log[i].out = "nil" => req[p].freed = req[p].cid
        /\ req[p].pc = "done" /\ Len(req[p].log) > 0
           /\ LastCall(p) = Call("GetAddressInfo", req[p].ip, "nil") =>
              /\ req[p].res = "OK" /\ req[p].addr = Nil
              /\ CallsOf(req[p].log, "FreeIP") = {}

\* the address a release had looked up was freed and given to another
\* container before its GetAddressInfo
C11_Witness ==
    \E p \in Procs :
        /\ DoneDel(p) /\ LastCall(p) = Call("GetAddressInfo", req[p].ip, "nil")
        /\ req[p].ip \in req[p].live0
        /\ assign[req[p].ip] /= NoAssign /\ assign[req[p].ip].cid /= req[p].cid

\* C12 (allocation from owned blocks only): at every AllocateIP call of an
\* allocate request the target block is owned by this node in the store,
\* also when the controller takes blocks away while the request runs.
C12_AllocatesFromOwnedBlocks == \A p \in Procs : ~req[p].foreign

\* the successful AcquireBlock calls of a request
Acquired(p) == {i \in CallsOf(req[p].log, "AcquireBlock") : req[p].log[i].out = "nil"}

\* C13 (termination of allocate): when allocate requests run concurrently on
\* a pool of finitely many blocks and every store call returns, every
\* allocate request answers; and a request acquires at most as many blocks
\* as its pool could hand out when it arrived.
C13_AllocateTerminates ==
    /\ \A p \in Procs : (req[p].op = "new") ~> (req[p].pc = "done")
    /\ [](\A p \in Procs : Cardinality(Acquired(p)) <= req[p].unused0)

\* the block a request had acquired was filled by two other requests before
\* it could allocate from it; it acquired a second block and answered with
\* an address of that one
C13_Witness ==
    \E p \in Procs :
        /\ DoneNew(p) /\ req[p].res = "OK"
        /\ Cardinality(Acquired(p)) = 2
        /\ \E i \in Acquired(p) : \E j \in CallsOf(req[p].log, "AllocateIP") :
              j > i /\ req[p].log[j].arg = req[p].log[i].arg /\ req[p].log[j].out = "ErrBlockIsFull"

\* C14 (route-install failure): when addBlockRouting fails for the block a
\* request has just acquired, the request is over with an internal error
\* and without an address, it has made no AllocateIP call on that block, and
\* it has not given the block back: with nothing else interfering, the store
\* still records the block as a block of this node.
C14_RouteFailure ==
    \A p \in Procs : \A i \in CallsOf(req[p].log, "addBlockRouting") :
        req[p].log[i].out = "error" =>
            LET b == req[p].log[i].arg IN
            /\ ~dryRun
            /\ i = Len(req[p].log)
            /\ req[p].log[i - 1] = Call("AcquireBlock", b, "nil")
            /\ req[p].pc = "done" /\ req[p].res = "Internal" /\ req[p].addr = Nil
            /\ \A j \in CallsOf(req[p].log, "AllocateIP") : req[p].log[j].arg /= b
            /\ req[p].alone =>
                  /\ owner[b] = "me"
                  /\ b \in SeqToSet(myBlocks[req[p].poolName])

\* a request acquired a block and could not install its route
C14_Witness ==
    \E p \in Procs :
        /\ DoneNew(p) /\ req[p].alone /\ req[p].res = "Internal"
        /\ LastCall(p).call = "addBlockRouting" /\ LastCall(p).out = "error"
        /\ owner[LastCall(p).arg] = "me" /\ LastCall(p).arg \notin routes

\* C15 (routed before use): when routing is enabled and the controller does
\* nothing, the address of every successful allocate response of a request
\* that ran alone lies in a block that has a route on this node (the blocks
\* owned at the start have one), also after earlier requests failed at the
\* installation of a route.
C15_RoutedBeforeUse ==
    \A p \in Procs :
        DoneNew(p) /\ req[p].res = "OK" /\ ~dryRun /\ req[p].alone /\ ctl = 0 =>
            \E b \in routes : Contains(b, req[p].addr)

\* C16 (route installation protocol): with routing enabled, the call that
\* follows a successful AcquireBlock of a request is addBlockRouting for the
\* block acquired, it is the only addBlockRouting of the request for that
\* block, and the AllocateIP calls the request makes on the block after the
\* acquisition come after it; addBlockRouting is called for nothing else.
\* In dry-run mode addBlockRouting is never called and the call that follows
\* the acquisition is the AllocateIP on the new block.
C16_RouteProtocol ==
    \A p \in Procs :
        LET log == req[p].log IN
        /\ \A i \in Acquired(p) :
              LET b == log[i].arg IN
              /\ Len(log) = i => req[p].pc = (IF dryRun THEN "AllocateIP" ELSE "addBlockRouting")
              /\ Len(log) > i =>
                    IF dryRun
                    THEN log[i + 1].call = "AllocateIP" /\ log[i + 1].arg = b
                    ELSE /\ log[i + 1].call = "addBlockRouting" /\ log[i + 1].arg = b
                         /\ \A k \in CallsOf(log, "addBlockRouting") : log[k].arg = b => k = i + 1
                         /\ \A j \in CallsOf(log, "AllocateIP") : j > i /\ log[j].arg = b => j > i + 1
        /\ \A k \in CallsOf(log, "addBlockRouting") :
              ~dryRun /\ k - 1 \in Acquired(p) /\ log[k - 1].arg = log[k].arg

\* with routing enabled a request acquired a block, installed its route and
\* then allocated from it
C16_Witness ==
    \E p \in Procs : \E i \in Acquired(p) :
        /\ DoneNew(p) /\ req[p].res = "OK" /\ ~dryRun
        /\ Len(req[p].log) = i + 2
        /\ req[p].log[i + 1] = Call("addBlockRouting", req[p].log[i].arg, "nil")
        /\ req[p].log[i + 2] = Call("AllocateIP", req[p].log[i].arg, "nil")

\* C17 (no lost update on concurrent escalation): on a quiet environment,
\* the blocks an allocate request scans, when it runs alone, include every
\* block of its pool that the store records as acquired by this node, also
\* when two of them were acquired by two requests that escalated at the same
\* time: no acquired block is dropped from the Block Set.
C17_NoLostUpdate ==
    \A p \in Procs :
        req[p].op = "new" /\ req[p].pc = "AllocateIP" /\ req[p].alone /\ Quiet =>
            \A b \in PoolBlocks[req[p].poolName] : owner[b] = "me" => b \in SeqToSet(req[p].bl)

\* on a node that owned nothing two requests escalated at the same time and
\* took one address each of the block they acquired; a third request, which
\* has acquired nothing itself, scans both blocks
C17_Witness ==
    \E p \in Procs :
        /\ req[p].op = "new" /\ req[p].pc = "AllocateIP" /\ req[p].alone /\ Quiet
        /\ nreq = MaxReq + 1 /\ Acquired(p) = {}
        /\ \A a \in Addrs : assign[a].cid \in Containers \cup {""}
        /\ \A b \in Blocks :
              /\ owner[b] = "me" /\ b \in SeqToSet(req[p].bl)
              /\ Cardinality(FreeAddrs(b)) = BlockSize - 1

\* the calls of the store
StoreCalls ==
    {"GetPool", "getAllocatedIP", "GetMyBlocks", "AllocateIP", "AcquireBlock", "GetAddressInfo", "FreeIP"}

\* C18 (infrastructure errors propagate): a store call of an allocate or of
\* a release that fails with an error that is none of the benign ones is the
\* last call of its request: the request is over with an internal error
\* that carries the error of the store, and without an address.
C18_ErrorsPropagate ==
    \A p \in Procs : \A i \in 1..Len(req[p].log) :
        req[p].log[i].call \in StoreCalls /\ req[p].log[i].out = "error" =>
            /\ i = Len(req[p].log)
            /\ req[p].pc = "done"
            /\ req[p].res = "Internal" /\ req[p].err = "store"
            /\ req[p].addr = Nil

\* the last store call of a release, FreeIP, failed: the release answered
\* with the internal error and the assignment is still there
C18_Witness ==
    \E p \in Procs :
        /\ DoneDel(p) /\ req[p].res = "Internal"
        /\ LastCall(p) = Call("FreeIP", req[p].ip, "error")
        /\ assign[req[p].ip] /= NoAssign /\ assign[req[p].ip].cid = req[p].cid

\* the blocks of bl tried so far in the current pass of the scan answered
\* ErrBlockIsFull, one call each, in the order of bl
ScannedInOrder(p) ==
    LET r == req[p]
        n == r.idx - 1
    IN /\ n <= Len(r.bl) /\ n <= Len(r.log)
       /\ \A k \in 1..n : r.log[Len(r.log) - n + k] = Call("AllocateIP", r.bl[k], "ErrBlockIsFull")

\* the call a step of the request of slot p adds to its log: AllocateIP is
\* on the next block of bl, a full block is skipped, the first block that is
\* not full gives the address of the response, and AcquireBlock comes when
\* no block of bl is left
ScanStep(p) ==
    req[p].op = "new" /\ Len(req'[p].log) = Len(req[p].log) + 1 =>
        LET c == req'[p].log[Len(req'[p].log)] IN
        /\ c.call = "AllocateIP" =>
              /\ req[p].pc = "AllocateIP" /\ req[p].idx <= Len(req[p].bl)
              /\ c.arg = req[p].bl[req[p].idx]
              /\ c.out = "ErrBlockIsFull" =>
                    /\ req'[p].pc = "AllocateIP"
                    /\ req'[p].bl = req[p].bl /\ req'[p].idx = req[p].idx + 1
              /\ c.out = "nil" =>
                    /\ req'[p].pc = "done" /\ req'[p].res = "OK"
                    /\ Contains(c.arg, req'[p].addr)
        /\ c.call = "AcquireBlock" =>
              req[p].pc = "AllocateIP" /\ req[p].idx = Len(req[p].bl) + 1

\* C19 (scan order): an allocate request calls AllocateIP on the blocks of
\* its Block Set in their order, once per block in a pass; it goes on to the
\* next block on ErrBlockIsFull only, answers with the address of the first
\* block that is not full, never ends on ErrBlockIsFull, and calls
\* AcquireBlock only when every block of the set has answered
\* ErrBlockIsFull in the pass (or the set is empty).
C19_ScanOrder ==
    /\ [](\A p \in Procs :
            /\ req[p].op = "new" /\ req[p].pc = "AllocateIP" => ScannedInOrder(p)
            /\ req[p].pc = "done" /\ Len(req[p].log) > 0 => LastCall(p).out /= "ErrBlockIsFull")
    /\ [][\A p \in Procs : ScanStep(p)]_vars

\* a request found the first block of its Block Set full and got its address
\* from the second one, without acquiring a block
C19_Witness ==
    \E p \in Procs : \E j \in CallsOf(req[p].log, "AllocateIP") :
        /\ DoneNew(p) /\ req[p].res = "OK" /\ Acquired(p) = {}
        /\ j + 1 = Len(req[p].log)
        /\ req[p].log[j].out = "ErrBlockIsFull"
        /\ req[p].log[j + 1].call = "AllocateIP" /\ req[p].log[j + 1].out = "nil"
        /\ req[p].log[j + 1].arg /= req[p].log[j].arg

\* C20 (no false orphan report): a release ends with the orphan error only
\* when the address it read for the container lies in no block the node owns
\* at that moment (the response is written in the step of the lookup, so the
\* blocks of the node are those of the lookup).
C20_NoFalseOrphan ==
    \A p \in Procs :
        DoneDel(p) /\ Orphaned(p) =>
            ~\E pn \in PoolNames : \E b \in SeqToSet(myBlocks[pn]) : Contains(b, req[p].ip)

====
